---- MODULE Spec2Model ----
(***************************************************************************)
(* skillbridge client: the session facade (src/hooks/useAuth.tsx), the     *)
(* payment-intent recorder (src/pages/Checkout.tsx), the submission review *)
(* of the admin console (src/pages/Admin.tsx), the sign-in / sign-up form  *)
(* (src/pages/Auth.tsx) and the file upload (src/utils/cloudinary.ts), as  *)
(* state machines.                                                         *)
(*                                                                         *)
(* Every `await` of the source is a point where the handler is suspended   *)
(* and any other callback may run; a handler is therefore one action per   *)
(* synchronous segment, and its position is a pc variable.  React state    *)
(* (useState) is a variable holding the last value handed to its setter.   *)
(* A handler reads React state through the closure of the render that      *)
(* created it: the value is captured when the handler is called.           *)
(***************************************************************************)
EXTENDS Integers, FiniteSets, Sequences, TLC

\* ------------------------------------------------------------------ bounds

\* user-initiated facade calls (signIn, signUp, signOut, refreshProfile) per run
MaxCalls == 2
\* auth-state-change events delivered by the SDK per run
MaxEvents == 2
\* clicks on "Confirm and Show Payment Details" per run
MaxPayClicks == 2
\* clicks on Reject / Approve & Pay per run, over all admin sessions
MaxReviews == 3
\* submissions of the Auth form per run
MaxSubmits == 2
\* characters of a password typed into the Auth form
MaxPwLen == 6
\* uploadToCloudinary calls per file and run
MaxUploads == 2

\* ------------------------------------------------------------------ values

NULL == "null"
Users == {"u1", "u2"}
MaybeUser == Users \cup {NULL}

\* A row of `profiles` as the facade sees it: the id and the two columns the
\* checkout rewrites.  NoProfile stands for `null`.
NoProfile == [id |-> NULL, membership_tier |-> "none", daily_tasks_used |-> 0]

\* The row of a user who has no membership, and the same row after a checkout
\* (Checkout.tsx: membership_tier = plan tier, daily_tasks_used = 0).
FreshRow(userId) == [id |-> userId, membership_tier |-> "none", daily_tasks_used |-> 1]

\* let cachedUserData: { profile, isAdmin } | null = null
NoCache == [present |-> FALSE, profile |-> NoProfile, isAdmin |-> FALSE]

\* The user seen by every closure created inside useEffect(..., []): the
\* effect runs once, after the first render, where useState gave user = null.
EffectClosureUser == NULL

\* error.message of signInWithPassword's error result
SignInErrors == {"Invalid login credentials", "Email not confirmed", "other"}

RefreshCalls == {1, 2}

\* Checkout.tsx planDetails: the keys of the table; NULL is currentPlan = null
Plans == {"regular", "pro", "vip"}

\* A numeric column holding null
NullNum == 0 - 1

Admins == {"a1", "a2"}
Workers == {"w1"}
Subs == {"s1", "s2"}

VARIABLES
    \* ---- backend: the row of `profiles` of each user
    dbProfile,
    \* ---- session facade: React state of AuthProvider and the module cache
    user, session, profile, isAdmin, isLoading, cachedUserData,
    \* ---- the effect: mounted flag, initializeAuth, listener
    mounted, initPc, initFetchUser,
    lsnState, listenerTimeout, lsnFetching,
    \* ---- calls in flight
    siPc, siClosureUser, siSession, siResult, siOwnFall,
    suPc, suResult,
    soPc,
    rfPc, rfUser,
    \* ---- Checkout: plan of the URL, React state, handlePayNow, redirect timers
    plan, isProcessing, paymentInitiated, error, payPc, redirectTimers, location,
    \* ---- backend: rows inserted into `transactions`
    dbTransactions,
    \* ---- Admin, per admin session: React state and handleReviewSubmission
    selectedSubmission, reviewDialogOpen, isReviewing, rvPc, rvStatus, rvRead, toast,
    \* ---- backend: job_submissions.status and the earnings columns of profiles
    dbSubmission, dbEarnings,
    \* ---- history (not read by any handler)
    payClicks, nConfirm, nInsert, nUpdate, payReshown,
    nReviews, rvCredited, nCredits,
    calls, nEvents, siFalls, lsnWindow, staleCommitted, rfRow, rfOverlap, rfKind,
    siAuth, adminOf,
    \* ---- Auth page: React state of the form and handleSubmit
    isSignUp, formData, errors, isSubmitting, apiError, verificationSent, submitPc,
    submits,
    \* ---- uploadToCloudinary: the call in flight for each file
    upload

authState == <<user, session, profile, isAdmin, isLoading, cachedUserData>>
effectVars == <<mounted, initPc, initFetchUser, lsnState, listenerTimeout, lsnFetching>>
signInVars == <<siPc, siClosureUser, siSession, siResult, siOwnFall, siAuth>>
signUpVars == <<suPc, suResult>>
refreshVars == <<rfPc, rfUser>>
lsnHistory == <<nEvents, lsnWindow, staleCommitted>>
rfHistory == <<rfRow, rfOverlap, rfKind>>
authVars == <<authState, effectVars, signInVars, signUpVars, soPc, refreshVars,
              calls, siFalls, lsnHistory, rfHistory, adminOf>>

checkoutState == <<plan, isProcessing, paymentInitiated, error, payPc, redirectTimers,
                   location>>
payHistory == <<payClicks, nConfirm, nInsert, nUpdate, payReshown>>
checkoutVars == <<checkoutState, dbTransactions, payHistory>>

adminState == <<selectedSubmission, reviewDialogOpen, isReviewing, rvPc, rvStatus,
                rvRead, toast>>
adminVars == <<adminState, dbSubmission, dbEarnings, nReviews, rvCredited,
              nCredits>>

authPageVars == <<isSignUp, formData, errors, isSubmitting, apiError, verificationSent,
                  submitPc, submits>>

\* what no facade handler touches, but for the page that called it
besidesAuthPage == <<dbProfile, checkoutVars, adminVars, upload>>
outsideFacade == <<besidesAuthPage, authPageVars>>

vars == <<dbProfile, authVars, checkoutVars, adminVars, authPageVars, upload>>

\* ------------------------------------------------------- fetchUserData

\* What `await Promise.race([fetchPromise, timeoutPromise])` can produce for
\* fetchUserData(userId): the timeout wins (null), Promise.all rejects, or
\* both results arrive; either result may carry data or data = null (error,
\* no row).
FetchOutcomes(userId) ==
    { [kind |-> "timeout", profile |-> NoProfile, admin |-> FALSE],
      [kind |-> "throw", profile |-> NoProfile, admin |-> FALSE] }
    \cup { [kind |-> "result", profile |-> p, admin |-> a] :
             p \in {dbProfile[userId], NoProfile}, a \in BOOLEAN }

\* if (cachedUserData && user?.id === userId)
CacheHit(closureUser, userId) ==
    cachedUserData.present /\ closureUser # NULL /\ closureUser = userId

\* if (profileResult.data) setProfile(profileResult.data)
ProfileMergedAfterFetch(o, cur) ==
    IF o.kind = "result" /\ o.profile # NoProfile
    THEN [cur EXCEPT !.id = o.profile.id, !.membership_tier = o.profile.membership_tier]
    ELSE cur

ProfileAfterFetch(o, cur) ==
    IF o.kind = "result" /\ o.profile # NoProfile THEN o.profile ELSE cur

\* if (profileResult.data) cachedUserData = { profile, isAdmin: !!roleResult.data }
CacheAfterFetch(o, cur) ==
    IF o.kind = "result" /\ o.profile # NoProfile
    THEN [present |-> TRUE, profile |-> o.profile, isAdmin |-> o.admin]
    ELSE cur

IsAdminClearedOnTimeout(o, cur) ==
    IF o.kind = "result" THEN o.admin ELSE FALSE

\* setIsAdmin(!!roleResult.data), reached only when the race returned results
IsAdminAfterFetch(o, cur) ==
    IF o.kind = "result" THEN o.admin ELSE cur

\* The part of fetchUserData after the await.  There is no mounted check.
\* adminOf is the user id of the lookup whose answer isAdmin holds.
FetchCommit(userId, o) ==
    /\ profile' = ProfileAfterFetch(o, profile)
    /\ cachedUserData' = CacheAfterFetch(o, cachedUserData)
    /\ isAdmin' = IsAdminAfterFetch(o, isAdmin)
    /\ adminOf' = IF o.kind = "result" THEN userId ELSE adminOf

\* ---------------------------------------------------- isLoading history

SignInRunning == siPc \in {"auth", "fetch"}

\* setIsLoading(v); siFalls counts the true -> false transitions of isLoading
\* since the signIn call in flight began (capped at 2).
SetIsLoading(v) ==
    /\ isLoading' = v
    /\ siFalls' = IF SignInRunning /\ isLoading /\ ~v /\ siFalls < 2
                  THEN siFalls + 1 ELSE siFalls

KeepIsLoading == UNCHANGED <<isLoading, siFalls>>

\* ------------------------------------------------------- initializeAuth

\* Init is the state after the first render and the effect's synchronous
\* part: initializeAuth has called setIsLoading(true) and awaits getSession,
\* and the 300 ms timer of setupAuthListener is pending.
\* The fields of the Auth form, and the form of useState's initial value.
Fields == {"fullName", "email", "password", "confirmPassword", "acceptTerms"}

EmptyForm == [fullName |-> <<>>, email |-> <<>>, password |-> <<>>,
              confirmPassword |-> <<>>, acceptTerms |-> FALSE]

\* useState<Record<string, string>>({}): no field has a message
NoErrors == [f \in Fields |-> NULL]

\* The Auth page before any submission, whatever the form holds.
AuthPageIdle ==
    /\ errors = NoErrors /\ isSubmitting = FALSE /\ apiError = ""
    /\ verificationSent = FALSE /\ submitPc = "idle" /\ submits = 0

\* The Auth page as mounted: sign-in mode, empty form.
AuthPageAtRest ==
    /\ isSignUp = FALSE /\ formData = EmptyForm
    /\ AuthPageIdle

\* The files handed to uploadToCloudinary, and a promise not yet settled.
Files == {"f1", "f2"}
PendingPromise == [state |-> "pending", value |-> "none"]

\* No upload was started.
UploadAtRest ==
    [f \in Files |-> [pc |-> "idle", promise |-> PendingPromise, response |-> "none",
                      body |-> "none", data |-> "none", objectUrls |-> 0,
                      uploads |-> 0]]

\* The Checkout page before any click.
CheckoutAtRest ==
    /\ isProcessing = FALSE /\ paymentInitiated = FALSE /\ error = NULL
    /\ payPc = "idle" /\ redirectTimers = 0 /\ location = "/checkout"
    /\ dbTransactions = 0
    /\ payClicks = 0 /\ nConfirm = 0 /\ nInsert = 0 /\ nUpdate = 0
    /\ payReshown = FALSE

NoEarnings == [approved_earnings |-> NullNum, total_earnings |-> NullNum,
               tasks_completed |-> NullNum]

\* The Admin page of every session before any click.
AdminAtRest ==
    /\ selectedSubmission = [a \in Admins |-> NULL]
    /\ reviewDialogOpen = [a \in Admins |-> FALSE]
    /\ isReviewing = [a \in Admins |-> FALSE]
    /\ rvPc = [a \in Admins |-> "idle"]
    /\ rvStatus = [a \in Admins |-> "pending"]
    /\ rvRead = [a \in Admins |-> NoEarnings]
    /\ toast = [a \in Admins |-> "none"]
    /\ nReviews = 0
    /\ rvCredited = [a \in Admins |-> FALSE]
    /\ nCredits = [s \in Subs |-> 0]

BackendAtRest ==
    /\ dbProfile = [u \in Users \cup {NULL} |-> IF u = NULL THEN NoProfile ELSE FreshRow(u)]
    /\ dbSubmission = [s \in Subs |-> "pending"]
    /\ upload = UploadAtRest

\* AuthProvider after its first render: the useState defaults, the effect
\* started and getSession pending.
ProviderMounting ==
    /\ user = NULL /\ session = NULL /\ profile = NoProfile
    /\ isAdmin = FALSE /\ isLoading = TRUE /\ cachedUserData = NoCache
    /\ mounted = TRUE /\ initPc = "getSession" /\ initFetchUser = NULL
    /\ lsnState = "waiting" /\ listenerTimeout = {} /\ lsnFetching = {}
    /\ siPc = "idle" /\ siClosureUser = NULL /\ siSession = NULL /\ siResult = "none" /\ siOwnFall = FALSE
    /\ siAuth = "none" /\ adminOf = NULL
    /\ suPc = "idle" /\ suResult = "none"
    /\ soPc = "idle"
    /\ rfPc = [r \in RefreshCalls |-> "idle"] /\ rfUser = [r \in RefreshCalls |-> NULL]
    /\ calls = 0 /\ nEvents = 0 /\ siFalls = 0
    /\ lsnWindow = "none" /\ staleCommitted = FALSE
    /\ rfRow = [r \in RefreshCalls |-> NoProfile] /\ rfOverlap = FALSE
    /\ rfKind = [r \in RefreshCalls |-> "none"]

InitAuth ==
    /\ BackendAtRest
    /\ AuthPageAtRest
    /\ dbEarnings = [w \in Workers |-> NoEarnings]
    /\ plan = NULL /\ CheckoutAtRest
    /\ AdminAtRest
    /\ ProviderMounting

\* getSession resolved with an error result.
InitGetSessionError ==
    /\ initPc = "getSession"
    /\ initPc' = "done"
    /\ IF mounted
       THEN /\ session' = NULL /\ user' = NULL
            /\ profile' = NoProfile /\ isAdmin' = FALSE /\ adminOf' = NULL
       ELSE UNCHANGED <<session, user, profile, isAdmin, adminOf>>
    /\ KeepIsLoading
    /\ UNCHANGED <<cachedUserData, mounted, initFetchUser, lsnState, listenerTimeout,
                   lsnFetching, signInVars, signUpVars, soPc, refreshVars, calls,
                   lsnHistory, rfHistory>>
    /\ UNCHANGED outsideFacade

\* getSession rejected: the catch block.
InitGetSessionThrows ==
    /\ initPc = "getSession"
    /\ initPc' = "done"
    /\ IF mounted
       THEN /\ session' = NULL /\ user' = NULL
            /\ profile' = NoProfile /\ isAdmin' = FALSE /\ adminOf' = NULL
            /\ SetIsLoading(FALSE)
       ELSE UNCHANGED <<session, user, profile, isAdmin, adminOf>> /\ KeepIsLoading
    /\ UNCHANGED <<cachedUserData, mounted, initFetchUser, lsnState, listenerTimeout,
                   lsnFetching, signInVars, signUpVars, soPc, refreshVars, calls,
                   lsnHistory, rfHistory>>
    /\ UNCHANGED outsideFacade

\* getSession resolved without error, with session s (NULL: no session).
InitGetSessionOk(s) ==
    /\ initPc = "getSession"
    /\ IF ~mounted
       THEN /\ initPc' = "done"
            /\ UNCHANGED <<authState, adminOf, siFalls, initFetchUser>>
       ELSE IF s # NULL
       THEN /\ session' = s /\ user' = s
            /\ IF CacheHit(EffectClosureUser, s)
               THEN /\ profile' = cachedUserData.profile
                    /\ isAdmin' = cachedUserData.isAdmin /\ adminOf' = s
                    /\ SetIsLoading(FALSE)
                    /\ initPc' = "done"
                    /\ UNCHANGED <<cachedUserData, initFetchUser>>
               ELSE /\ initPc' = "fetch"
                    /\ initFetchUser' = s
                    /\ KeepIsLoading
                    /\ UNCHANGED <<profile, isAdmin, adminOf, cachedUserData>>
       ELSE /\ session' = NULL /\ user' = NULL
            /\ profile' = NoProfile /\ isAdmin' = FALSE /\ adminOf' = NULL
            /\ SetIsLoading(FALSE)
            /\ initPc' = "done"
            /\ UNCHANGED <<cachedUserData, initFetchUser>>
    /\ UNCHANGED <<mounted, lsnState, listenerTimeout, lsnFetching, signInVars,
                   signUpVars, soPc, refreshVars, calls, lsnHistory, rfHistory>>
    /\ UNCHANGED outsideFacade

\* fetchUserData(session.user.id).finally(() => { if (mounted) setIsLoading(false) })
InitFetchDone(o) ==
    /\ initPc = "fetch"
    /\ o \in FetchOutcomes(initFetchUser)
    /\ FetchCommit(initFetchUser, o)
    /\ IF mounted THEN SetIsLoading(FALSE) ELSE KeepIsLoading
    /\ initPc' = "done"
    /\ UNCHANGED <<user, session, mounted, initFetchUser, lsnState, listenerTimeout,
                   lsnFetching, signInVars, signUpVars, soPc, refreshVars, calls,
                   lsnHistory, rfHistory>>
    /\ UNCHANGED outsideFacade

\* ------------------------------------------------------- auth listener

\* setTimeout(setupAuthListener, 300) fires: onAuthStateChange subscribes.
SetupAuthListener ==
    /\ lsnState = "waiting"
    /\ lsnState' = "subscribed"
    /\ UNCHANGED <<authState, adminOf, mounted, initPc, initFetchUser, listenerTimeout,
                   lsnFetching, signInVars, signUpVars, soPc, refreshVars, calls,
                   siFalls, lsnHistory, rfHistory>>
    /\ UNCHANGED outsideFacade

\* clearTimeout(listenerTimeout); listenerTimeout = setTimeout(..., 100)
\* The pending timers, each with the session of its event; `stale` records
\* that a later event arrived while the timer was pending.
TimersKeepingPrevious(newSession) ==
    { [t EXCEPT !.stale = TRUE] : t \in listenerTimeout }
        \cup { [sess |-> newSession, stale |-> FALSE] }

TimersAfterEvent(newSession) ==
    { [sess |-> newSession, stale |-> FALSE] }

\* The SDK delivers an auth-state-change event with newSession.
AuthStateChange(newSession) ==
    /\ lsnState = "subscribed"
    /\ nEvents < MaxEvents
    /\ nEvents' = nEvents + 1
    /\ IF mounted
       THEN /\ listenerTimeout' = TimersAfterEvent(newSession)
            /\ lsnWindow' = IF listenerTimeout # {} THEN "superseded" ELSE lsnWindow
       ELSE UNCHANGED <<listenerTimeout, lsnWindow>>
    /\ UNCHANGED <<authState, adminOf, mounted, initPc, initFetchUser, lsnState, lsnFetching,
                   signInVars, signUpVars, soPc, refreshVars, calls, siFalls, staleCommitted, rfHistory>>
    /\ UNCHANGED outsideFacade

\* The 100 ms timer t fires: the debounced callback up to its await.
\* The callbacks in flight are kept per user id (one per user at a time).
ListenerTimeoutFires(t) ==
    /\ t \in listenerTimeout
    /\ t.sess \notin lsnFetching
    /\ listenerTimeout' = listenerTimeout \ {t}
    /\ staleCommitted' = (staleCommitted \/ t.stale)
    /\ lsnWindow' = IF lsnWindow = "superseded" /\ ~t.stale THEN "lastCommitted" ELSE lsnWindow
    /\ session' = t.sess /\ user' = t.sess
    /\ LET cleared == IF t.sess # EffectClosureUser THEN NoCache ELSE cachedUserData
       IN  IF t.sess # NULL
           THEN IF cleared.present /\ EffectClosureUser = t.sess
                THEN /\ profile' = cleared.profile /\ isAdmin' = cleared.isAdmin
                     /\ adminOf' = t.sess
                     /\ cachedUserData' = cleared
                     /\ SetIsLoading(FALSE)
                     /\ UNCHANGED lsnFetching
                ELSE /\ lsnFetching' = lsnFetching \cup {t.sess}
                     /\ cachedUserData' = cleared
                     /\ KeepIsLoading
                     /\ UNCHANGED <<profile, isAdmin, adminOf>>
           ELSE /\ profile' = NoProfile /\ isAdmin' = FALSE /\ adminOf' = NULL
                /\ cachedUserData' = cleared
                /\ SetIsLoading(FALSE)
                /\ UNCHANGED lsnFetching
    /\ UNCHANGED <<mounted, initPc, initFetchUser, lsnState, signInVars, signUpVars,
                   soPc, refreshVars, calls, nEvents, rfHistory>>
    /\ UNCHANGED outsideFacade

\* await fetchUserData(newSession.user.id) returns; setIsLoading(false)
ListenerFetchDone(u, o) ==
    /\ u \in lsnFetching
    /\ o \in FetchOutcomes(u)
    /\ lsnFetching' = lsnFetching \ {u}
    /\ FetchCommit(u, o)
    /\ SetIsLoading(FALSE)
    /\ UNCHANGED <<user, session, mounted, initPc, initFetchUser, lsnState,
                   listenerTimeout, signInVars, signUpVars, soPc, refreshVars, calls,
                   lsnHistory, rfHistory>>
    /\ UNCHANGED outsideFacade

\* The effect's cleanup.
Unmount ==
    /\ mounted
    /\ mounted' = FALSE
    /\ lsnState' = "off"
    /\ listenerTimeout' = {}
    /\ UNCHANGED <<authState, adminOf, initPc, initFetchUser, lsnFetching, signInVars,
                   signUpVars, soPc, refreshVars, calls, siFalls, lsnHistory, rfHistory>>
    /\ UNCHANGED outsideFacade

\* --------------------------------------------------------------- signIn

\* signIn up to `await supabase.auth.signInWithPassword(...)`, as far as
\* the facade is concerned.
SignInStart ==
    /\ mounted
    /\ siPc \in {"idle", "done"}
    /\ calls < MaxCalls
    /\ calls' = calls + 1
    /\ isLoading' = TRUE
    /\ siFalls' = 0
    /\ cachedUserData' = NoCache
    /\ siClosureUser' = user
    /\ siPc' = "auth"
    /\ siResult' = "none"
    /\ siSession' = NULL
    /\ siAuth' = "none"
    /\ siOwnFall' = FALSE
    /\ UNCHANGED <<user, session, profile, isAdmin, adminOf, effectVars, signUpVars, soPc,
                   refreshVars, lsnHistory, rfHistory>>

\* signIn called by a consumer of the context that the model leaves at rest.
SignInCall ==
    /\ SignInStart
    /\ UNCHANGED outsideFacade

\* What signIn returns for an error result with message m.
SignInErrorSwallowed(m) == "ok"

SignInErrorResult(m) ==
    IF m = "Email not confirmed"
    THEN "Please verify your email first. Check your inbox."
    ELSE m

\* if (error) { setIsLoading(false); ... return { error } }
SignInAuthError(m) ==
    /\ siPc = "auth"
    /\ SetIsLoading(FALSE)
    /\ siResult' = SignInErrorResult(m)
    /\ siAuth' = m
    /\ siOwnFall' = isLoading
    /\ siPc' = "done"
    /\ UNCHANGED <<user, session, profile, isAdmin, adminOf, cachedUserData, effectVars,
                   siClosureUser, siSession, signUpVars, soPc, refreshVars, calls,
                   lsnHistory, rfHistory>>
    /\ UNCHANGED outsideFacade

\* signInWithPassword rejected: catch (error) { setIsLoading(false); return { error } }
SignInAuthThrows ==
    /\ siPc = "auth"
    /\ SetIsLoading(FALSE)
    /\ siResult' = "exception"
    /\ siAuth' = "exception"
    /\ siOwnFall' = isLoading
    /\ siPc' = "done"
    /\ UNCHANGED <<user, session, profile, isAdmin, adminOf, cachedUserData, effectVars,
                   siClosureUser, siSession, signUpVars, soPc, refreshVars, calls,
                   lsnHistory, rfHistory>>
    /\ UNCHANGED outsideFacade

\* What signIn returns once fetchUserData has returned, whatever the fetch did.
SignInPropagatesFetchError(o) ==
    IF o.kind = "throw" THEN "exception" ELSE "ok"

SignInResultAfterFetch(o) == "ok"

\* signInWithPassword resolved without error; data.session = s (NULL: none).
SignInAuthOk(s) ==
    /\ siPc = "auth"
    /\ siSession' = s
    /\ siAuth' = "ok"
    /\ IF s # NULL
       THEN /\ session' = s /\ user' = s
            /\ IF CacheHit(siClosureUser, s)
               THEN /\ profile' = cachedUserData.profile
                    /\ isAdmin' = cachedUserData.isAdmin /\ adminOf' = s
                    /\ SetIsLoading(FALSE)
                    /\ siOwnFall' = isLoading
                    /\ siResult' = "ok"
                    /\ siPc' = "done"
               ELSE /\ siPc' = "fetch"
                    /\ KeepIsLoading
                    /\ UNCHANGED <<profile, isAdmin, adminOf, siResult, siOwnFall>>
       ELSE /\ SetIsLoading(FALSE)
            /\ siOwnFall' = isLoading
            /\ siResult' = "ok"
            /\ siPc' = "done"
            /\ UNCHANGED <<user, session, profile, isAdmin, adminOf>>
    /\ UNCHANGED <<cachedUserData, effectVars, siClosureUser, signUpVars, soPc,
                   refreshVars, calls, lsnHistory, rfHistory>>
    /\ UNCHANGED outsideFacade

\* Whether signIn leaves isLoading set once fetchUserData has returned:
\* setIsLoading(false) follows the await on every path.
LoadingStuckOnTimeout(o) == o.kind = "timeout"

LoadingAfterSignInFetch(o) == FALSE

\* await fetchUserData(...) returns; setIsLoading(false); return { error: null }
SignInFetchDone(o) ==
    /\ siPc = "fetch"
    /\ o \in FetchOutcomes(siSession)
    /\ FetchCommit(siSession, o)
    /\ SetIsLoading(LoadingAfterSignInFetch(o))
    /\ siOwnFall' = (isLoading /\ ~LoadingAfterSignInFetch(o))
    /\ siResult' = SignInResultAfterFetch(o)
    /\ siPc' = "done"
    /\ UNCHANGED siAuth
    /\ UNCHANGED <<user, session, effectVars, siClosureUser, siSession, signUpVars,
                   soPc, refreshVars, calls, lsnHistory, rfHistory>>
    /\ UNCHANGED outsideFacade

\* --------------------------------------------------------------- signUp

\* signUp up to `await supabase.auth.signUp(...)`, as far as the facade is
\* concerned.
SignUpStart ==
    /\ mounted
    /\ suPc \in {"idle", "done"}
    /\ calls < MaxCalls
    /\ calls' = calls + 1
    /\ SetIsLoading(TRUE)
    /\ suPc' = "await"
    /\ suResult' = "none"
    /\ UNCHANGED <<user, session, profile, isAdmin, adminOf, cachedUserData, effectVars,
                   signInVars, soPc, refreshVars, lsnHistory, rfHistory>>

\* signUp called by a consumer of the context that the model leaves at rest.
SignUpCall ==
    /\ SignUpStart
    /\ UNCHANGED outsideFacade

\* isLoading when signUp returns: setIsLoading(false) precedes each return.
LoadingStuckOnSignUpError(outcome) == outcome # "ok"

LoadingAfterSignUp(outcome) == FALSE

\* The three ends of signUp: error result, success, exception.
SignUpDone(outcome) ==
    /\ suPc = "await"
    /\ SetIsLoading(LoadingAfterSignUp(outcome))
    /\ suResult' = outcome
    /\ suPc' = "done"
    /\ UNCHANGED <<user, session, profile, isAdmin, adminOf, cachedUserData, effectVars,
                   signInVars, soPc, refreshVars, calls, lsnHistory, rfHistory>>
    /\ UNCHANGED outsideFacade

\* -------------------------------------------------------------- signOut

\* signOut up to `await supabase.auth.signOut()`.
SignOutCall ==
    /\ mounted
    /\ soPc \in {"idle", "done"}
    /\ calls < MaxCalls
    /\ calls' = calls + 1
    /\ SetIsLoading(TRUE)
    /\ cachedUserData' = NoCache
    /\ soPc' = "await"
    /\ UNCHANGED <<user, session, profile, isAdmin, adminOf, effectVars, signInVars,
                   signUpVars, refreshVars, lsnHistory, rfHistory>>
    /\ UNCHANGED outsideFacade

\* supabase.auth.signOut() resolved (with or without an error result: the
\* result is not read).
SignOutReturns ==
    /\ soPc = "await"
    /\ user' = NULL /\ session' = NULL
    /\ profile' = NoProfile /\ isAdmin' = FALSE /\ adminOf' = NULL
    /\ SetIsLoading(FALSE)
    /\ soPc' = "done"
    /\ UNCHANGED <<cachedUserData, effectVars, signInVars, signUpVars, refreshVars,
                   calls, lsnHistory, rfHistory>>
    /\ UNCHANGED outsideFacade

\* supabase.auth.signOut() rejected: catch (error) { setIsLoading(false) }
SignOutThrows ==
    /\ soPc = "await"
    /\ SetIsLoading(FALSE)
    /\ soPc' = "done"
    /\ UNCHANGED <<user, session, profile, isAdmin, adminOf, cachedUserData, effectVars,
                   signInVars, signUpVars, refreshVars, calls, lsnHistory,
                   rfHistory>>
    /\ UNCHANGED outsideFacade

\* -------------------------------------------------------- refreshProfile

\* refreshProfile with a non-null closure user, up to the await inside
\* fetchUserData: the cache was just cleared, so the cache branch is not
\* taken.  With user = null the call does nothing.
RefreshCall(r) ==
    /\ mounted
    /\ rfPc[r] \in {"idle", "done"}
    /\ user # NULL
    /\ calls < MaxCalls
    /\ calls' = calls + 1
    /\ cachedUserData' = NoCache
    /\ rfPc' = [rfPc EXCEPT ![r] = "fetch"]
    /\ rfUser' = [rfUser EXCEPT ![r] = user]
    /\ rfRow' = [rfRow EXCEPT ![r] = NoProfile]
    /\ rfOverlap' = (\E q \in RefreshCalls \ {r} : rfPc[q] = "fetch")
    /\ rfKind' = [rfKind EXCEPT ![r] = "none"]
    /\ UNCHANGED <<user, session, profile, isAdmin, adminOf, isLoading, siFalls, effectVars,
                   signInVars, signUpVars, soPc, lsnHistory>>
    /\ UNCHANGED outsideFacade

\* await fetchUserData(user.id) returns.
RefreshFetchDone(r, o) ==
    /\ rfPc[r] = "fetch"
    /\ o \in FetchOutcomes(rfUser[r])
    /\ FetchCommit(rfUser[r], o)
    /\ rfPc' = [rfPc EXCEPT ![r] = "done"]
    /\ rfRow' = [rfRow EXCEPT ![r] = IF o.kind = "result" THEN o.profile ELSE NoProfile]
    /\ rfKind' = [rfKind EXCEPT ![r] = o.kind]
    /\ UNCHANGED <<user, session, isLoading, siFalls, effectVars, signInVars,
                   signUpVars, soPc, rfUser, calls, lsnHistory, rfOverlap>>
    /\ UNCHANGED outsideFacade

\* ------------------------------------------------------------- backend

\* Another client rewrites the user's row (the checkout's update of
\* membership_tier and daily_tasks_used, seen from this session).
BackendProfileUpdate(u) ==
    /\ dbProfile[u].membership_tier = "none"
    /\ dbProfile' = [dbProfile EXCEPT ![u] =
                        [id |-> u, membership_tier |-> "pro", daily_tasks_used |-> 0]]
    /\ UNCHANGED <<authVars, checkoutVars, adminVars, authPageVars, upload>>

\* ------------------------------------------------------------- facade

InitializeAuth ==
    \/ InitGetSessionError
    \/ InitGetSessionThrows
    \/ \E s \in MaybeUser : InitGetSessionOk(s)
    \/ \E o \in FetchOutcomes(initFetchUser) : InitFetchDone(o)

AuthListener ==
    \/ SetupAuthListener
    \/ \E s \in MaybeUser : AuthStateChange(s)
    \/ \E t \in listenerTimeout : ListenerTimeoutFires(t)
    \/ \E u \in lsnFetching : \E o \in FetchOutcomes(u) : ListenerFetchDone(u, o)

ProviderUnmount ==
    Unmount

SignIn ==
    \/ SignInCall
    \/ \E m \in SignInErrors : SignInAuthError(m)
    \/ SignInAuthThrows
    \/ \E s \in MaybeUser : SignInAuthOk(s)
    \/ \E o \in FetchOutcomes(siSession) : SignInFetchDone(o)

SignUp ==
    \/ SignUpCall
    \/ \E outcome \in {"error", "ok", "exception"} : SignUpDone(outcome)

SignOut ==
    \/ SignOutCall
    \/ SignOutReturns
    \/ SignOutThrows

RefreshProfile ==
    \/ \E r \in RefreshCalls : RefreshCall(r)
    \/ \E r \in RefreshCalls : \E o \in FetchOutcomes(rfUser[r]) : RefreshFetchDone(r, o)

\* The effect alone: session restore, listener, unmount.
NextEffect ==
    \/ InitializeAuth
    \/ AuthListener
    \/ ProviderUnmount

SpecEffect == InitAuth /\ [][NextEffect]_vars

\* A sign-in against the running effect.
NextSignIn ==
    \/ InitializeAuth
    \/ AuthListener
    \/ SignIn

SpecSignIn == InitAuth /\ [][NextSignIn]_vars

\* Sign-in and sign-out against the running effect.
NextSession ==
    \/ InitializeAuth
    \/ AuthListener
    \/ SignIn
    \/ SignOut

SpecSession == InitAuth /\ [][NextSession]_vars

\* signUp calls against the effect.
NextSignUp ==
    \/ InitializeAuth
    \/ AuthListener
    \/ SignUp

SpecSignUp == InitAuth /\ [][NextSignUp]_vars

\* Profile refreshes after the session restore, against a changing backend row.
NextRefresh ==
    \/ InitializeAuth
    \/ RefreshProfile
    \/ \E u \in Users : BackendProfileUpdate(u)

SpecRefresh == InitAuth /\ [][NextRefresh]_vars

\* ------------------------------------------------------------- claims

\* C1: a signIn call whose external auth call succeeded has seen isLoading go
\* from true to false exactly once between the call and its return, for
\* every outcome of the profile/role fetch and with the effect's callbacks
\* (session restore, debounced listener) running in between.
SignInLoadingFallsOnce ==
    (siPc = "done" /\ siResult = "ok") => siFalls = 1

\* C1 witness: a successful signIn with a session has returned while
\* initializeAuth still awaits getSession, and the one fall of isLoading was
\* made by a debounced listener callback, not by signIn's own
\* setIsLoading(false).
SignInLoadingFallsOnceWitness ==
    /\ siPc = "done" /\ siResult = "ok" /\ siSession # NULL
    /\ siFalls = 1 /\ ~siOwnFall
    /\ initPc = "getSession"

\* C2: when the external sign-in succeeds with a session, signIn sets user
\* and session to it, and the step in which the profile/role fetch ends
\* (rows, error result, exception, timeout) leaves user and session as they
\* are and returns { error: null }.
SignInSurvivesFetchFailure ==
    /\ [](siPc = "done" /\ siSession # NULL => siResult = "ok")
    /\ [][ /\ (siPc = "auth" /\ siSession' # NULL)
                => (user' = siSession' /\ session' = siSession')
           /\ (siPc = "fetch" /\ siPc' = "done")
                => (user' = user /\ session' = session /\ siResult' = "ok")
         ]_vars

\* C2 witness: no auth event was delivered, signIn returned { error: null }
\* for a session whose fetch installed nothing (no profile, no cache entry),
\* and user and session are that session.
SignInSurvivesFetchFailureWitness ==
    /\ siPc = "done" /\ siResult = "ok" /\ siSession # NULL
    /\ user = siSession /\ session = siSession
    /\ profile = NoProfile /\ ~cachedUserData.present
    /\ nEvents = 0 /\ initPc = "done"

\* C3: at the step in which signOut returns, user, session and profile are
\* null, isAdmin and isLoading are false and the cache is empty, whatever
\* the external sign-out call did.
SignOutClearsEverything ==
    [][ (soPc = "await" /\ soPc' = "done")
            => /\ user' = NULL /\ session' = NULL /\ profile' = NoProfile
               /\ ~isAdmin' /\ ~isLoading'
               /\ cachedUserData' = NoCache
      ]_vars

\* C4: no debounced callback runs for an event that a later event
\* superseded while its timer was pending: such an event is never written
\* to session/user and starts no profile fetch.
DebounceCommitsOnlyLast ==
    ~staleCommitted

\* C4 witness: an event arrived while the timer of an earlier one was
\* pending, and the callback of the later event has run.
DebounceCommitsOnlyLastWitness ==
    lsnWindow = "lastCommitted"

\* C5: after the provider unmounted, the completion of a request started by
\* the effect (getSession, the fetch of initializeAuth, the fetch of a
\* listener callback) changes none of user, session, profile, isAdmin,
\* isLoading and the module-level cache.
UnmountDiscardsInFlight ==
    [][ (~mounted /\ (initPc' # initPc \/ lsnFetching' # lsnFetching))
            => UNCHANGED authState
      ]_vars

\* C6: when two refreshProfile calls were in flight together and each got a
\* profile row, then at the completion of the second one the profile state
\* is the row of one of the two fetches.
RefreshNoPartialMerge ==
    [][ \A r \in RefreshCalls : \A q \in RefreshCalls \ {r} :
          ( /\ rfPc[r] = "fetch" /\ rfPc'[r] = "done" /\ rfPc'[q] = "done"
            /\ rfOverlap'
            /\ rfRow'[r] # NoProfile /\ rfRow'[q] # NoProfile )
          => profile' \in {rfRow'[r], rfRow'[q]}
      ]_vars

\* C6 witness: both overlapping refreshes are complete, they returned
\* different rows, and the profile is the row of the first call.
RefreshNoPartialMergeWitness ==
    /\ rfPc[1] = "done" /\ rfPc[2] = "done" /\ rfOverlap
    /\ rfRow[1] # NoProfile /\ rfRow[2] # NoProfile
    /\ rfRow[1] # rfRow[2]
    /\ profile = rfRow[1]

\* ------------------------------------------------------------ Checkout

\* currentPlan.tier
PlanTier(p) == p

\* The facade as the Checkout page finds it: settled, signed in or not.
\* Nothing of the effect or of another call is in flight.
FacadeSettled(u, p) ==
    /\ user = u /\ session = u /\ profile = p
    /\ isAdmin = FALSE /\ isLoading = FALSE
    /\ cachedUserData = IF p = NoProfile THEN NoCache
                        ELSE [present |-> TRUE, profile |-> p, isAdmin |-> FALSE]
    /\ mounted = TRUE /\ initPc = "done" /\ initFetchUser = u
    /\ lsnState = "subscribed" /\ listenerTimeout = {} /\ lsnFetching = {}
    /\ siPc = "idle" /\ siClosureUser = NULL /\ siSession = NULL /\ siResult = "none"
    /\ siOwnFall = FALSE
    /\ siAuth = "none" /\ adminOf = NULL
    /\ suPc = "idle" /\ suResult = "none"
    /\ soPc = "idle"
    /\ rfPc = [r \in RefreshCalls |-> "idle"] /\ rfUser = [r \in RefreshCalls |-> NULL]
    /\ calls = 0 /\ nEvents = 0 /\ siFalls = 0
    /\ lsnWindow = "none" /\ staleCommitted = FALSE
    /\ rfRow = [r \in RefreshCalls |-> NoProfile] /\ rfOverlap = FALSE
    /\ rfKind = [r \in RefreshCalls |-> "none"]

InitCheckout ==
    /\ BackendAtRest
    /\ AuthPageAtRest
    /\ dbEarnings = [w \in Workers |-> NoEarnings]
    /\ AdminAtRest
    /\ CheckoutAtRest
    /\ plan \in Plans \cup {NULL}
    /\ \E u \in {"u1", NULL} :
         \E p \in (IF u = NULL THEN {NoProfile} ELSE {NoProfile, FreshRow(u)}) :
            FacadeSettled(u, p)

checkoutFrame == <<user, session, isLoading, siFalls, effectVars, signInVars, signUpVars,
                   soPc, refreshVars, calls, lsnHistory, rfHistory, adminVars,
                   authPageVars, upload>>

\* The end of handlePayNow's try block and its finally: the toast, the 10 s
\* redirect timer, setIsProcessing(false).
PayFinish ==
    /\ redirectTimers' = redirectTimers + 1
    /\ isProcessing' = FALSE
    /\ payPc' = "idle"
    /\ UNCHANGED <<plan, paymentInitiated, error, location>>

\* The outer catch of handlePayNow and its finally.
PayAbort ==
    /\ error' = "There was an issue setting up your payment. Please try again or contact support."
    /\ isProcessing' = FALSE
    /\ payPc' = "idle"
    /\ UNCHANGED <<plan, paymentInitiated, redirectTimers, location>>

\* A click on "Confirm and Show Payment Details" (rendered while neither
\* paymentInitiated nor isProcessing): handlePayNow up to the await of the
\* insert into transactions.
PayNowClick ==
    /\ location = "/checkout"
    /\ ~paymentInitiated /\ ~isProcessing
    /\ payPc = "idle"
    /\ payClicks < MaxPayClicks
    /\ payClicks' = payClicks + 1
    /\ IF user = NULL \/ plan = NULL
       THEN UNCHANGED <<checkoutState, nConfirm, nInsert, payReshown>>
       ELSE /\ isProcessing' = TRUE
            /\ error' = NULL
            /\ paymentInitiated' = TRUE
            /\ payPc' = "insert"
            /\ nConfirm' = nConfirm + 1
            /\ nInsert' = nInsert + 1
            /\ payReshown' = FALSE
            /\ UNCHANGED <<plan, redirectTimers, location>>
    /\ UNCHANGED <<dbProfile, profile, isAdmin, adminOf, cachedUserData, dbTransactions, nUpdate,
                   checkoutFrame>>

\* Where handlePayNow continues after the insert: its own try/catch swallows
\* an error result and an exception alike.
InsertFailureAborts(outcome) ==
    IF outcome = "ok" THEN "update" ELSE "abort"

NextAfterInsert(outcome) == "update"

\* The insert into transactions ends; the update of profiles is issued.
PayInsertDone(outcome) ==
    /\ payPc = "insert"
    /\ dbTransactions' = IF outcome = "ok" THEN dbTransactions + 1 ELSE dbTransactions
    /\ IF NextAfterInsert(outcome) = "update"
       THEN /\ payPc' = "update"
            /\ nUpdate' = nUpdate + 1
            /\ UNCHANGED <<plan, isProcessing, paymentInitiated, error, redirectTimers,
                           location>>
       ELSE PayAbort /\ UNCHANGED nUpdate
    /\ UNCHANGED <<dbProfile, profile, isAdmin, adminOf, cachedUserData, payClicks, nConfirm,
                   nInsert, payReshown, checkoutFrame>>

\* Where handlePayNow continues after the update: an exception skips
\* refreshProfile (the inner catch), an error result does not.
UpdateFailureAborts(outcome) ==
    IF outcome = "ok" THEN "refresh" ELSE "abort"

NextAfterUpdate(outcome) ==
    IF outcome = "throw" THEN "finish" ELSE "refresh"

\* The update of profiles ends; refreshProfile() runs up to its await.
PayUpdateDone(outcome) ==
    /\ payPc = "update"
    /\ dbProfile' = IF outcome = "ok"
                    THEN [dbProfile EXCEPT ![user] =
                            [id |-> user, membership_tier |-> PlanTier(plan),
                             daily_tasks_used |-> 0]]
                    ELSE dbProfile
    /\ LET nxt == NextAfterUpdate(outcome)
       IN  IF nxt = "refresh"
           THEN /\ cachedUserData' = NoCache
                /\ payPc' = "refresh"
                /\ UNCHANGED <<plan, isProcessing, paymentInitiated, error,
                               redirectTimers, location>>
           ELSE IF nxt = "finish"
           THEN PayFinish /\ UNCHANGED cachedUserData
           ELSE PayAbort /\ UNCHANGED cachedUserData
    /\ UNCHANGED <<profile, isAdmin, adminOf, dbTransactions, payHistory, checkoutFrame>>

\* await refreshProfile() returns: the fetch of fetchUserData(user.id) ended.
PayRefreshDone(o) ==
    /\ payPc = "refresh"
    /\ o \in FetchOutcomes(user)
    /\ FetchCommit(user, o)
    /\ PayFinish
    /\ UNCHANGED <<dbProfile, dbTransactions, payHistory, checkoutFrame>>

\* The pending 10 s timers after handleManualVerify: it holds no handle of
\* them and calls no clearTimeout.
TimersClearedByManualVerify(timers) == 0

TimersAfterManualVerify(timers) == timers

\* A click on "Show Payment Details Again" (rendered while paymentInitiated).
HandleManualVerify ==
    /\ location = "/checkout"
    /\ paymentInitiated
    /\ paymentInitiated' = FALSE
    /\ payReshown' = (payPc # "idle")
    /\ redirectTimers' = TimersAfterManualVerify(redirectTimers)
    /\ UNCHANGED <<plan, isProcessing, error, payPc, location,
                   dbProfile, profile, isAdmin, adminOf, cachedUserData, dbTransactions,
                   payClicks, nConfirm, nInsert, nUpdate, checkoutFrame>>

\* A 10 s timer of handlePayNow fires: navigate('/dashboard').
RedirectFires ==
    /\ redirectTimers > 0
    /\ redirectTimers' = redirectTimers - 1
    /\ location' = "/dashboard"
    /\ UNCHANGED <<plan, isProcessing, paymentInitiated, error, payPc,
                   dbProfile, profile, isAdmin, adminOf, cachedUserData, dbTransactions,
                   payHistory, checkoutFrame>>

HandlePayNow ==
    \/ PayNowClick
    \/ \E outcome \in {"ok", "error", "throw"} : PayInsertDone(outcome)
    \/ \E outcome \in {"ok", "error", "throw"} : PayUpdateDone(outcome)
    \/ \E o \in FetchOutcomes(user) : PayRefreshDone(o)

NextCheckout ==
    \/ HandlePayNow
    \/ HandleManualVerify
    \/ RedirectFires

SpecCheckout == InitCheckout /\ [][NextCheckout]_vars

\* The same, with the event loop running every timer that is due.
SpecCheckoutTimers == SpecCheckout /\ WF_vars(RedirectFires)

\* C7: every confirmation that passed the user/plan guard has attempted one
\* insert into transactions and, once the insert has ended in any way, one
\* update of profiles: k confirmations attempt k inserts and k updates.
OneInsertOneUpdatePerConfirmation ==
    /\ nInsert = nConfirm
    /\ nUpdate = nConfirm - (IF payPc = "insert" THEN 1 ELSE 0)

\* C7 witness: two confirmations have run to their end, with two inserts and
\* two updates attempted, and no row reached transactions.
OneInsertOneUpdatePerConfirmationWitness ==
    /\ payPc = "idle" /\ nConfirm = 2 /\ nInsert = 2 /\ nUpdate = 2
    /\ dbTransactions = 0

\* C8 as stated: at the step in which handlePayNow ends, paymentInitiated is
\* true, error is null and isProcessing is false.
PayNowEndsWithInstructionsShown ==
    [][ (payPc # "idle" /\ payPc' = "idle")
            => (paymentInitiated' /\ error' = NULL /\ ~isProcessing')
      ]_vars

\* C8 amended: at the step in which handlePayNow ends, error is null and
\* isProcessing is false, and paymentInitiated is true unless the user
\* pressed "Show Payment Details Again" while the handler was running,
\* for every outcome of the insert, the update and the refresh.
PayNowAlwaysPresentsInstructions ==
    [][ (payPc # "idle" /\ payPc' = "idle")
            => /\ error' = NULL
               /\ ~isProcessing'
               /\ (~payReshown' => paymentInitiated')
      ]_vars

\* C8 witness: a confirmation has ended with the instructions presented
\* although no row reached transactions, the profile row was not updated and
\* the refresh installed nothing.
PayNowAlwaysPresentsInstructionsWitness ==
    /\ payPc = "idle" /\ nConfirm = 1 /\ user # NULL
    /\ paymentInitiated /\ error = NULL /\ ~isProcessing
    /\ dbTransactions = 0
    /\ dbProfile[user] = FreshRow(user)
    /\ profile = NoProfile

\* --------------------------------------------------------------- Admin

\* selectedSubmission.payment_amount and selectedSubmission.user_id
PaymentAmount(s) == IF s = "s1" THEN 10 ELSE 5
SubmissionWorker(s) == "w1"

\* profile.approved_earnings || 0
OrZero(x) == IF x = NullNum THEN 0 ELSE x

\* The object handed to profiles.update() for the row that was read.
EarningsCountingAmountAsTask(read, amount) ==
    [approved_earnings |-> OrZero(read.approved_earnings) + amount,
     total_earnings |-> OrZero(read.total_earnings) + amount,
     tasks_completed |-> OrZero(read.tasks_completed) + amount]

EarningsCreditingApprovedOnly(read, amount) ==
    [approved_earnings |-> OrZero(read.approved_earnings) + amount,
     total_earnings |-> OrZero(read.total_earnings),
     tasks_completed |-> OrZero(read.tasks_completed) + 1]

EarningsAfterApproval(read, amount) ==
    [approved_earnings |-> OrZero(read.approved_earnings) + amount,
     total_earnings |-> OrZero(read.total_earnings) + amount,
     tasks_completed |-> OrZero(read.tasks_completed) + 1]

\* The earnings columns a worker's row starts with.
StartingEarnings ==
    { [approved_earnings |-> 50, total_earnings |-> 100, tasks_completed |-> 3],
      [approved_earnings |-> 0, total_earnings |-> 0, tasks_completed |-> 0],
      NoEarnings }

InitAdmin ==
    /\ BackendAtRest
    /\ AuthPageAtRest
    /\ dbEarnings \in [Workers -> StartingEarnings]
    /\ AdminAtRest
    /\ plan = NULL /\ CheckoutAtRest
    /\ FacadeSettled("u1", FreshRow("u1"))

adminFrame == <<dbProfile, authVars, checkoutVars, authPageVars, upload>>

\* openReviewDialog(submission): "Review" / "Update Review" of a list entry.
OpenReviewDialog(a, s) ==
    /\ rvPc[a] = "idle"
    /\ ~reviewDialogOpen[a]
    /\ nReviews < MaxReviews
    /\ selectedSubmission' = [selectedSubmission EXCEPT ![a] = s]
    /\ reviewDialogOpen' = [reviewDialogOpen EXCEPT ![a] = TRUE]
    /\ UNCHANGED <<isReviewing, rvPc, rvStatus, rvRead, toast, dbSubmission,
                   dbEarnings, nReviews, rvCredited, nCredits, adminFrame>>

\* "Cancel": setReviewDialogOpen(false)
CancelReviewDialog(a) ==
    /\ reviewDialogOpen[a]
    /\ ~isReviewing[a]
    /\ reviewDialogOpen' = [reviewDialogOpen EXCEPT ![a] = FALSE]
    /\ UNCHANGED <<selectedSubmission, isReviewing, rvPc, rvStatus, rvRead, toast,
                   dbSubmission, dbEarnings, nReviews, rvCredited, nCredits, adminFrame>>

\* The catch block and the finally of handleReviewSubmission.
ReviewFails(a) ==
    /\ toast' = [toast EXCEPT ![a] = "Error"]
    /\ isReviewing' = [isReviewing EXCEPT ![a] = FALSE]
    /\ rvPc' = [rvPc EXCEPT ![a] = "idle"]
    /\ UNCHANGED <<selectedSubmission, reviewDialogOpen>>

\* toast 'Success', then fetchData() is awaited.
ReviewSucceeds(a) ==
    /\ toast' = [toast EXCEPT ![a] = "Success"]
    /\ rvPc' = [rvPc EXCEPT ![a] = "fetchData"]
    /\ UNCHANGED <<selectedSubmission, reviewDialogOpen, isReviewing>>

\* A click on "Reject" or "Approve & Pay" in the open dialog (both disabled
\* while isReviewing): handleReviewSubmission(status) up to the await of the
\* update of job_submissions.
ReviewClick(a, status) ==
    /\ reviewDialogOpen[a]
    /\ selectedSubmission[a] # NULL
    /\ ~isReviewing[a]
    /\ rvPc[a] = "idle"
    /\ nReviews < MaxReviews
    /\ nReviews' = nReviews + 1
    /\ isReviewing' = [isReviewing EXCEPT ![a] = TRUE]
    /\ rvStatus' = [rvStatus EXCEPT ![a] = status]
    /\ rvPc' = [rvPc EXCEPT ![a] = "submissionUpdate"]
    /\ rvCredited' = [rvCredited EXCEPT ![a] = FALSE]
    /\ toast' = [toast EXCEPT ![a] = "none"]
    /\ UNCHANGED <<selectedSubmission, reviewDialogOpen, rvRead, dbSubmission,
                   dbEarnings, nCredits, adminFrame>>

\* if (status === 'approved') { ...profiles... }: what follows the update of
\* job_submissions.
ProfileReadOnEveryStatus(status) == "profileRead"

NextAfterSubmissionUpdate(status) ==
    IF status = "approved" THEN "profileRead" ELSE "success"

\* if (submissionError) throw submissionError: an error result of the
\* update of job_submissions is thrown like an exception of the call.
SubmissionErrorOnlyLogged(outcome) == outcome = "throw"

SubmissionUpdateThrows(outcome) == outcome # "ok"

\* The update of job_submissions ends: written, an error result, or an
\* exception.
SubmissionUpdateDone(a, outcome) ==
    /\ rvPc[a] = "submissionUpdate"
    /\ IF SubmissionUpdateThrows(outcome)
       THEN /\ ReviewFails(a)
            /\ UNCHANGED dbSubmission
       ELSE /\ dbSubmission' = IF outcome = "ok"
                               THEN [dbSubmission EXCEPT ![selectedSubmission[a]] = rvStatus[a]]
                               ELSE dbSubmission
            /\ IF NextAfterSubmissionUpdate(rvStatus[a]) = "profileRead"
               THEN /\ rvPc' = [rvPc EXCEPT ![a] = "profileRead"]
                    /\ UNCHANGED <<selectedSubmission, reviewDialogOpen, isReviewing, toast>>
               ELSE ReviewSucceeds(a)
    /\ UNCHANGED <<rvStatus, rvRead, dbEarnings, nReviews, rvCredited, nCredits, adminFrame>>

\* The select of the worker's earnings ends: a row, data = null (no row or
\* an error result), or an exception.
ProfileReadDone(a, outcome) ==
    /\ rvPc[a] = "profileRead"
    /\ IF outcome = "row"
       THEN /\ rvRead' = [rvRead EXCEPT ![a] = dbEarnings[SubmissionWorker(selectedSubmission[a])]]
            /\ rvPc' = [rvPc EXCEPT ![a] = "profileUpdate"]
            /\ UNCHANGED <<selectedSubmission, reviewDialogOpen, isReviewing, toast>>
       ELSE IF outcome = "none"
       THEN ReviewSucceeds(a) /\ UNCHANGED rvRead
       ELSE ReviewFails(a) /\ UNCHANGED rvRead
    /\ UNCHANGED <<rvStatus, dbSubmission, dbEarnings, nReviews, rvCredited, nCredits, adminFrame>>

\* The update of the worker's earnings ends: written, an error result (only
\* logged), or an exception.
ProfileUpdateDone(a, outcome) ==
    /\ rvPc[a] = "profileUpdate"
    /\ IF outcome = "ok"
       THEN /\ dbEarnings' = [dbEarnings EXCEPT ![SubmissionWorker(selectedSubmission[a])] =
                                EarningsAfterApproval(rvRead[a],
                                                      PaymentAmount(selectedSubmission[a]))]
            /\ rvCredited' = [rvCredited EXCEPT ![a] = TRUE]
            /\ nCredits' = [nCredits EXCEPT ![selectedSubmission[a]] = @ + 1]
            /\ ReviewSucceeds(a)
       ELSE IF outcome = "error"
       THEN ReviewSucceeds(a) /\ UNCHANGED <<dbEarnings, rvCredited, nCredits>>
       ELSE ReviewFails(a) /\ UNCHANGED <<dbEarnings, rvCredited, nCredits>>
    /\ UNCHANGED <<rvStatus, rvRead, dbSubmission, nReviews, adminFrame>>

\* await fetchData() returns (it catches its own errors): the dialog is
\* closed, the selection and the feedback are reset; finally.
ReviewFetchDataDone(a) ==
    /\ rvPc[a] = "fetchData"
    /\ reviewDialogOpen' = [reviewDialogOpen EXCEPT ![a] = FALSE]
    /\ selectedSubmission' = [selectedSubmission EXCEPT ![a] = NULL]
    /\ isReviewing' = [isReviewing EXCEPT ![a] = FALSE]
    /\ rvPc' = [rvPc EXCEPT ![a] = "idle"]
    /\ UNCHANGED <<rvStatus, rvRead, toast, dbSubmission, dbEarnings, nReviews,
                   rvCredited, nCredits, adminFrame>>

HandleReviewSubmission(a) ==
    \/ \E status \in {"approved", "rejected"} : ReviewClick(a, status)
    \/ \E outcome \in {"ok", "error", "throw"} : SubmissionUpdateDone(a, outcome)
    \/ \E outcome \in {"row", "none", "throw"} : ProfileReadDone(a, outcome)
    \/ \E outcome \in {"ok", "error", "throw"} : ProfileUpdateDone(a, outcome)
    \/ ReviewFetchDataDone(a)

NextAdmin ==
    \E a \in Admins :
        \/ \E s \in Subs : OpenReviewDialog(a, s)
        \/ CancelReviewDialog(a)
        \/ HandleReviewSubmission(a)

SpecAdmin == InitAdmin /\ [][NextAdmin]_vars

\* C9: whenever handleReviewSubmission('approved') has stored the submission
\* as approved and reported success (the 'Success' toast), the earnings of
\* the worker were increased by that review.
ApprovalAlwaysCredits ==
    \A a \in Admins :
        ( /\ rvPc[a] = "fetchData" /\ rvStatus[a] = "approved"
          /\ toast[a] = "Success"
          /\ dbSubmission[selectedSubmission[a]] = "approved" )
            => rvCredited[a]

\* C10: the step in which an approval writes the worker's earnings stores
\* approved_earnings a+p, total_earnings t+p and tasks_completed n+1 for the
\* row (a, t, n) it read and the payment_amount p of the submission, a
\* missing value counting as 0; (50, 100, 3) and p = 10 give (60, 110, 4).
ApprovalAddsPaymentAmount ==
    [][ \A a \in Admins :
          (rvPc[a] = "profileUpdate" /\ rvCredited'[a])
          => LET w == SubmissionWorker(selectedSubmission[a])
                 p == PaymentAmount(selectedSubmission[a])
                 zero(x) == IF x < 0 THEN 0 ELSE x
                 row == rvRead[a]
             IN  /\ dbEarnings'[w].approved_earnings = zero(row.approved_earnings) + p
                 /\ dbEarnings'[w].total_earnings = zero(row.total_earnings) + p
                 /\ dbEarnings'[w].tasks_completed = zero(row.tasks_completed) + 1
                 /\ ( /\ p = 10
                      /\ row = [approved_earnings |-> 50, total_earnings |-> 100,
                                tasks_completed |-> 3] )
                    => dbEarnings'[w] = [approved_earnings |-> 60, total_earnings |-> 110,
                                         tasks_completed |-> 4]
      ]_vars

\* C10 witness: an approval of the submission paying 10 read (50, 100, 3)
\* and has written (60, 110, 4).
ApprovalAddsPaymentAmountWitness ==
    \E a \in Admins :
        /\ rvPc[a] = "fetchData" /\ rvCredited[a]
        /\ selectedSubmission[a] = "s1"
        /\ rvRead[a] = [approved_earnings |-> 50, total_earnings |-> 100,
                        tasks_completed |-> 3]
        /\ dbEarnings["w1"] = [approved_earnings |-> 60, total_earnings |-> 110,
                               tasks_completed |-> 4]

\* C11: a step of handleReviewSubmission('rejected') never reaches the read
\* or the update of profiles and leaves approved_earnings, total_earnings
\* and tasks_completed of every worker as they are.
RejectionLeavesEarnings ==
    [][ \A a \in Admins :
          (rvPc'[a] # rvPc[a] /\ rvStatus'[a] = "rejected")
          => /\ dbEarnings' = dbEarnings
             /\ rvPc'[a] \notin {"profileRead", "profileUpdate"}
      ]_vars

\* C11 witness: the submission paying 10 was approved and credited before
\* (50, 100, 3 became 60, 110, 4), its rejection is now stored and reported,
\* and the earnings are still those of the approval.
RejectionLeavesEarningsWitness ==
    \E a \in Admins :
        /\ rvPc[a] = "fetchData" /\ rvStatus[a] = "rejected"
        /\ toast[a] = "Success"
        /\ selectedSubmission[a] = "s1" /\ dbSubmission["s1"] = "rejected"
        /\ dbEarnings["w1"] = [approved_earnings |-> 60, total_earnings |-> 110,
                               tasks_completed |-> 4]

\* C12: no step changes the status of a submission that is approved or
\* rejected.
ReviewedStatusNeverChanges ==
    [][ \A s \in Subs :
          dbSubmission[s] \in {"approved", "rejected"}
          => dbSubmission'[s] = dbSubmission[s]
      ]_vars

\* ----------------------------------------------------------- Auth page

\* A string is the sequence of its characters.  A password is made of a
\* lowercase letter, an uppercase letter and a digit.
PwChars == {"a", "A", "1"}
Passwords == UNION { [1..n -> PwChars] : n \in 0..MaxPwLen }

\* What the form can hold when the sign-up form is submitted.
SignUpForms ==
    { [fullName |-> n, email |-> e, password |-> pw,
       confirmPassword |-> IF same THEN pw ELSE <<"x">>, acceptTerms |-> a] :
        n \in {<<"A">>, <<"A", "l">>},
        e \in {<<"w", "@", "x", ".", "io">>, <<"w", "x", ".", "io">>},
        pw \in Passwords, same \in BOOLEAN, a \in BOOLEAN }

\* What the form can hold when the sign-in form is submitted.
SignInForms ==
    { [EmptyForm EXCEPT !.email = e, !.password = pw] :
        e \in {<<"w", "@", "x", ".", "io">>, <<"w", "x", ".", "io">>},
        pw \in {<<>>, <<"a">>} }

\* z.string().email(): a local part, one "@", a domain with a dot inside
IsEmail(e) ==
    \E i \in 2..Len(e) :
        /\ e[i] = "@"
        /\ \A j \in 1..Len(e) : e[j] = "@" => j = i
        /\ \E k \in (i + 2)..(Len(e) - 1) : e[k] = "."

\* One issue of a ZodError
Issue(path, message) == [path |-> path, message |-> message]
IssueIf(cond, path, message) == IF cond THEN <<Issue(path, message)>> ELSE <<>>

\* /^(?=.*[a-z])(?=.*[A-Z])(?=.*\d)/ : the three lookaheads
MatchesComplexity(pw) ==
    /\ \E i \in 1..Len(pw) : pw[i] = "a"
    /\ \E i \in 1..Len(pw) : pw[i] = "A"
    /\ \E i \in 1..Len(pw) : pw[i] = "1"

\* password: z.string().min(6, ...).regex(...); every failing check adds
\* its issue.
PasswordIssuesLengthOnly(pw) ==
    IssueIf(Len(pw) < 6, "password", "Password must be at least 6 characters")

PasswordIssues(pw) ==
    IssueIf(Len(pw) < 6, "password", "Password must be at least 6 characters")
    \o IssueIf(~MatchesComplexity(pw), "password",
               "Password must contain at least one uppercase letter, one lowercase letter, and one number")

\* The issues of the fields of signUpSchema, in the order of its keys.
SignUpFieldIssues(fd) ==
    IssueIf(Len(fd.fullName) < 2, "fullName", "Name must be at least 2 characters")
    \o IssueIf(~IsEmail(fd.email), "email", "Invalid email address")
    \o PasswordIssues(fd.password)
    \o IssueIf(fd.acceptTerms # TRUE, "acceptTerms",
               "You must accept the terms and conditions")

\* Whether the .refine() of the object runs: a failed check of a field
\* leaves the parse dirty, not aborted (every field has its type), and the
\* refinement is applied to a dirty value as well.
RefinementSkippedWhenDirty(fieldIssues) == fieldIssues = <<>>

RefinementRuns(fieldIssues) == TRUE

\* signUpSchema.safeParse(formData).error.errors (empty on success)
SignUpIssues(fd) ==
    LET fieldIssues == SignUpFieldIssues(fd)
    IN  fieldIssues
        \o IssueIf(RefinementRuns(fieldIssues) /\ fd.password # fd.confirmPassword,
                   "confirmPassword", "Passwords don't match")

\* signInSchema.safeParse({ email, password }).error.errors
SignInIssues(fd) ==
    IssueIf(~IsEmail(fd.email), "email", "Invalid email address")
    \o IssueIf(Len(fd.password) < 1, "password", "Password is required")

\* result.error.errors.forEach(err => fieldErrors[err.path[0]] = err.message):
\* the last issue of a field wins.
FieldErrors(issues) ==
    [f \in Fields |->
        LET at == {i \in 1..Len(issues) : issues[i].path = f}
        IN  IF at = {} THEN NULL
            ELSE issues[CHOOSE i \in at : \A j \in at : j <= i].message]

\* The words of an error message, for String.prototype.includes.
Words(m) ==
    CASE m = "Invalid login credentials" -> <<"Invalid", "login", "credentials">>
      [] m = "Email not confirmed" -> <<"Email", "not", "confirmed">>
      [] m = "Please verify your email first. Check your inbox."
           -> <<"Please", "verify", "your", "email", "first.", "Check", "your", "inbox.">>
      [] m = "User already registered" -> <<"User", "already", "registered">>
      [] OTHER -> <<m>>

\* message.includes(needle), on words
Includes(m, needle) ==
    \E i \in 1..(Len(Words(m)) - Len(needle) + 1) :
        SubSeq(Words(m), i, i + Len(needle) - 1) = needle

\* handleSubmit, sign-in branch: what an error of signIn becomes.
SignInFeedback(message) ==
    IF Includes(message, <<"Invalid", "login">>)
    THEN [apiError |-> "Invalid email or password. Please try again.",
          verificationSent |-> FALSE]
    ELSE IF Includes(message, <<"Email", "not", "confirmed">>)
    THEN [apiError |-> "Please verify your email address before logging in.",
          verificationSent |-> TRUE]
    ELSE [apiError |-> message, verificationSent |-> FALSE]

\* handleSubmit, sign-up branch: what an error of signUp becomes.
SignUpFeedback(message) ==
    IF Includes(message, <<"already", "registered">>)
    THEN "This email is already registered. Please sign in instead."
    ELSE IF Includes(message, <<"User", "already", "registered">>)
    THEN "This email is already registered. Please sign in."
    ELSE message

\* What supabase.auth.signUp can end with, as signUp hands it on: success,
\* an error result with its message, an exception.
SignUpOutcomes == {"ok", "User already registered", "error", "exception"}

\* The Auth page opened by a visitor who is not signed in, the form filled.
InitAuthPage ==
    /\ BackendAtRest
    /\ dbEarnings = [w \in Workers |-> NoEarnings]
    /\ AdminAtRest
    /\ plan = NULL /\ CheckoutAtRest
    /\ FacadeSettled(NULL, NoProfile)
    /\ AuthPageIdle
    /\ \/ isSignUp = TRUE /\ formData \in SignUpForms
       \/ isSignUp = FALSE /\ formData \in SignInForms

\* handleSubmit up to its first await (the submit button is disabled while
\* isSubmitting or verificationSent): validation, and the call of signUp or
\* signIn when the form is valid.
HandleSubmit ==
    /\ submitPc = "idle"
    /\ ~isSubmitting /\ ~verificationSent
    /\ submits < MaxSubmits
    /\ submits' = submits + 1
    /\ apiError' = ""
    /\ verificationSent' = FALSE
    /\ LET issues == IF isSignUp THEN SignUpIssues(formData) ELSE SignInIssues(formData)
       IN  IF issues # <<>>
           THEN /\ errors' = FieldErrors(issues)
                /\ isSubmitting' = FALSE
                /\ submitPc' = "idle"
                /\ UNCHANGED authVars
           ELSE /\ isSubmitting' = TRUE
                /\ UNCHANGED errors
                /\ IF isSignUp
                   THEN SignUpStart /\ submitPc' = "signUp"
                   ELSE SignInStart /\ submitPc' = "signIn"
    /\ UNCHANGED <<isSignUp, formData, besidesAuthPage>>

\* await signUp(...) returned { error }.
SubmitSignUpReturns ==
    /\ submitPc = "signUp"
    /\ suPc = "done"
    /\ IF suResult # "ok"
       THEN /\ apiError' = SignUpFeedback(suResult)
            /\ UNCHANGED <<verificationSent, formData>>
       ELSE /\ verificationSent' = TRUE
            /\ formData' = EmptyForm
            /\ UNCHANGED apiError
    /\ isSubmitting' = FALSE
    /\ submitPc' = "idle"
    /\ UNCHANGED <<isSignUp, errors, submits, authVars, besidesAuthPage>>

\* await signIn(...) returned { error }.
SubmitSignInReturns ==
    /\ submitPc = "signIn"
    /\ siPc = "done"
    /\ IF siResult # "ok"
       THEN /\ apiError' = SignInFeedback(siResult).apiError
            /\ verificationSent' = SignInFeedback(siResult).verificationSent
       ELSE UNCHANGED <<apiError, verificationSent>>
    /\ isSubmitting' = FALSE
    /\ submitPc' = "idle"
    /\ UNCHANGED <<isSignUp, formData, errors, submits, authVars, besidesAuthPage>>

\* handleSubmit and the facade calls it awaits.
NextAuthPage ==
    \/ HandleSubmit
    \/ \E outcome \in SignUpOutcomes : SignUpDone(outcome)
    \/ SubmitSignUpReturns
    \/ \E m \in SignInErrors : SignInAuthError(m)
    \/ SignInAuthThrows
    \/ \E s \in MaybeUser : SignInAuthOk(s)
    \/ \E o \in FetchOutcomes(siSession) : SignInFetchDone(o)
    \/ SubmitSignInReturns

SpecAuthPage == InitAuthPage /\ [][NextAuthPage]_vars

\* C13: a submission of the sign-up form whose password is shorter than 6
\* or lacks a lowercase letter, an uppercase letter or a digit sets a field
\* error on password, leaves isSubmitting false and returns without calling
\* signUp.
WeakPasswordRejected ==
    [][ ( /\ submits' # submits /\ isSignUp
          /\ LET pw == formData.password
             IN  \/ Len(pw) < 6
                 \/ \A i \in 1..Len(pw) : pw[i] # "a"
                 \/ \A i \in 1..Len(pw) : pw[i] # "A"
                 \/ \A i \in 1..Len(pw) : pw[i] # "1" )
        => /\ errors'.password # NULL
           /\ ~isSubmitting' /\ submitPc' = "idle"
           /\ suPc' = suPc /\ calls' = calls
      ]_vars

\* C13 witness: a form whose only fault is a password of six characters
\* without a digit was submitted and rejected on the password, with no call
\* of signUp.
WeakPasswordRejectedWitness ==
    /\ isSignUp /\ submits = 1 /\ submitPc = "idle" /\ ~isSubmitting
    /\ formData.password = <<"a", "A", "a", "A", "a", "A">>
    /\ formData.confirmPassword = formData.password
    /\ Len(formData.fullName) = 2 /\ IsEmail(formData.email) /\ formData.acceptTerms
    /\ errors = [NoErrors EXCEPT !.password =
          "Password must contain at least one uppercase letter, one lowercase letter, and one number"]
    /\ suPc = "idle" /\ calls = 0

\* C14: a submission of the sign-up form whose password differs from
\* confirmPassword is rejected without calling signUp and sets
\* errors.confirmPassword, whatever the other fields are.
MismatchRejected ==
    [][ (submits' # submits /\ isSignUp /\ formData.password # formData.confirmPassword)
        => /\ errors'.confirmPassword = "Passwords don't match"
           /\ ~isSubmitting' /\ submitPc' = "idle"
           /\ suPc' = suPc /\ calls' = calls
      ]_vars

\* C14 witness: name, email, password complexity and acceptTerms fail
\* together with the mismatch, and every one of the five fields has its
\* message.
MismatchRejectedWitness ==
    /\ isSignUp /\ submits = 1 /\ submitPc = "idle"
    /\ formData.password # formData.confirmPassword
    /\ Len(formData.fullName) < 2 /\ ~IsEmail(formData.email) /\ ~formData.acceptTerms
    /\ Len(formData.password) < 6
    /\ errors.confirmPassword = "Passwords don't match"
    /\ \A f \in Fields : errors[f] # NULL
    /\ calls = 0

\* ------------------------------------------------- facade, further claims

\* C15: signIn always returns an object { error }: error is null exactly
\* when the external auth call reported no error, and neither the call nor
\* a return with an error changes user, session, profile or isAdmin.
SignInReturnsErrorSignal ==
    /\ [](siPc = "done" => /\ siResult # "none"
                           /\ (siResult = "ok" <=> siAuth = "ok"))
    /\ [][ /\ (siPc' = "auth" /\ siPc # "auth")
                => UNCHANGED <<user, session, profile, isAdmin>>
           /\ (siPc = "auth" /\ siPc' = "done" /\ siResult' # "ok")
                => UNCHANGED <<user, session, profile, isAdmin>>
         ]_vars

\* C15 witness: signIn returned the error of an unconfirmed email while u1
\* was signed in as an admin, and u1 is still signed in as an admin.
SignInReturnsErrorSignalWitness ==
    /\ siPc = "done" /\ siAuth = "Email not confirmed"
    /\ siResult = "Please verify your email first. Check your inbox."
    /\ user = "u1" /\ session = "u1" /\ isAdmin /\ profile = FreshRow("u1")

\* C17: no step of signUp changes user, session, profile or isAdmin, and
\* signUp returns { error } with isLoading false, for every outcome of the
\* external signup call.
SignUpEstablishesNoSession ==
    [][ suPc' # suPc
        => /\ UNCHANGED <<user, session, profile, isAdmin>>
           /\ suPc' = "done" => (~isLoading' /\ suResult' \in {"ok", "error", "exception"})
      ]_vars

\* C17 witness: the session restore found no session, no auth event was
\* delivered, signUp succeeded, and nobody is signed in.
SignUpEstablishesNoSessionWitness ==
    /\ suPc = "done" /\ suResult = "ok"
    /\ initPc = "done" /\ nEvents = 0
    /\ user = NULL /\ session = NULL /\ profile = NoProfile /\ ~isAdmin
    /\ ~isLoading

\* C20: isAdmin is true only while a user is signed in whose own role
\* lookup gave the answer that isAdmin holds.
AdminFlagIsOfCurrentUser ==
    isAdmin => (user # NULL /\ adminOf = user)

\* C16: when handleSubmit has its answer from signIn, a rejection whose
\* message contains 'Invalid login' has become the invalid-credentials text,
\* and a rejection whose message contains 'Email not confirmed' has become
\* the unconfirmed-email text with verificationSent set.
KnownSignInErrorsCategorised ==
    [][ (submitPc = "signIn" /\ submitPc' = "idle")
        => /\ siAuth = "Invalid login credentials"
                => /\ apiError' = "Invalid email or password. Please try again."
                   /\ ~verificationSent'
           /\ siAuth = "Email not confirmed"
                => /\ apiError' = "Please verify your email address before logging in."
                   /\ verificationSent'
      ]_vars

\* ------------------------------------------------ Checkout, the redirect

\* C18: every end of handlePayNow after a confirmation schedules one more
\* redirect, whatever the backend calls did; a scheduled redirect leaves
\* only by firing, which navigates to /dashboard (handleManualVerify does
\* not cancel it); and every scheduled redirect does fire.
EveryConfirmationRedirects ==
    /\ [][ /\ (payPc # "idle" /\ payPc' = "idle")
                => redirectTimers' = redirectTimers + 1
           /\ redirectTimers' < redirectTimers
                => (redirectTimers' = redirectTimers - 1 /\ location' = "/dashboard")
         ]_vars
    /\ \A k \in 1..MaxPayClicks :
          (redirectTimers = k) ~> (redirectTimers < k /\ location = "/dashboard")

\* C18 witness: two confirmations ended without a row in transactions,
\* "Show Payment Details Again" was pressed after the second one had ended,
\* one redirect has fired and the other is still pending.
EveryConfirmationRedirectsWitness ==
    /\ location = "/dashboard" /\ redirectTimers = 1
    /\ nConfirm = 2 /\ payPc = "idle" /\ dbTransactions = 0
    /\ ~paymentInitiated /\ ~payReshown

\* --------------------------------------------------- uploadToCloudinary

\* upload[f] is the call for file f: pc is the link of the promise chain
\* that runs next, promise the promise the call returned, response and body
\* what the service sent, data the value handed to the second .then, and
\* objectUrls the number of URL.createObjectURL(file) calls made.

uploadFrame == <<dbProfile, authVars, checkoutVars, adminVars, authPageVars>>

\* resolve(v): settles the promise unless it is settled already
Resolve(p, v) ==
    IF p.state = "pending" THEN [state |-> "resolved", value |-> v] ELSE p

\* The .catch of the chain: resolve(objectUrl)
RejectInCatch(p) ==
    IF p.state = "pending" THEN [state |-> "rejected", value |-> "error"] ELSE p

SettleInCatch(p) == Resolve(p, "blob")

\* What response.json() of an OK response can give: an object with
\* secure_url, an object without, the JSON value null, or a rejection.
OkBodies == {"withSecureUrl", "withoutSecureUrl", "null", "unparsable"}

InitUpload ==
    /\ BackendAtRest
    /\ AuthPageAtRest
    /\ dbEarnings = [w \in Workers |-> NoEarnings]
    /\ AdminAtRest
    /\ plan = NULL /\ CheckoutAtRest
    /\ FacadeSettled("u1", FreshRow("u1"))

\* uploadToCloudinary(file): the executor of the promise up to fetch(...).
UploadCall(f) ==
    /\ upload[f].pc \in {"idle", "done"}
    /\ upload[f].uploads < MaxUploads
    /\ upload' = [upload EXCEPT ![f] =
                    [pc |-> "fetch", promise |-> PendingPromise, response |-> "none",
                     body |-> "none", data |-> "none", objectUrls |-> 0,
                     uploads |-> @.uploads + 1]]
    /\ UNCHANGED uploadFrame

\* fetch settles and the first .then runs: a rejection goes to the .catch,
\* a response that is not OK to its own response.json(), an OK response to
\* response.json().
UploadFetchSettles(f, outcome) ==
    /\ upload[f].pc = "fetch"
    /\ upload' = [upload EXCEPT ![f].response = outcome,
                                ![f].pc = CASE outcome = "networkError" -> "catch"
                                            [] outcome = "notOk" -> "errorJson"
                                            [] OTHER -> "okJson"]
    /\ UNCHANGED uploadFrame

\* response.json() of a response that is not OK settles: its .then resolves
\* with an object URL and returns undefined to the second .then; a body that
\* does not parse goes to the .catch.
UploadErrorJsonSettles(f, outcome) ==
    /\ upload[f].pc = "errorJson"
    /\ upload' = [upload EXCEPT ![f] =
                    IF outcome = "parsed"
                    THEN [@ EXCEPT !.body = "parsed", !.pc = "thenData",
                                   !.data = "undefined",
                                   !.objectUrls = @ + 1,
                                   !.promise = Resolve(@, "blob")]
                    ELSE [@ EXCEPT !.body = "unparsable", !.pc = "catch"]]
    /\ UNCHANGED uploadFrame

\* response.json() of an OK response settles.
UploadOkJsonSettles(f, body) ==
    /\ upload[f].pc = "okJson"
    /\ upload' = [upload EXCEPT ![f] =
                    IF body = "unparsable"
                    THEN [@ EXCEPT !.body = body, !.pc = "catch"]
                    ELSE [@ EXCEPT !.body = body, !.pc = "thenData", !.data = body]]
    /\ UNCHANGED uploadFrame

\* The second .then: data.secure_url throws a TypeError for undefined and
\* null, which goes to the .catch.
UploadThenData(f) ==
    /\ upload[f].pc = "thenData"
    /\ upload' = [upload EXCEPT ![f] =
                    IF @.data \in {"undefined", "null"}
                    THEN [@ EXCEPT !.pc = "catch"]
                    ELSE IF @.data = "withSecureUrl"
                    THEN [@ EXCEPT !.pc = "done", !.promise = Resolve(@, "secure_url")]
                    ELSE [@ EXCEPT !.pc = "done", !.objectUrls = @ + 1,
                                   !.promise = Resolve(@, "blob")]]
    /\ UNCHANGED uploadFrame

\* The .catch: URL.createObjectURL(file), resolve(objectUrl).
UploadCatch(f) ==
    /\ upload[f].pc = "catch"
    /\ upload' = [upload EXCEPT ![f] =
                    [@ EXCEPT !.pc = "done", !.objectUrls = @ + 1,
                              !.promise = SettleInCatch(@)]]
    /\ UNCHANGED uploadFrame

UploadToCloudinary(f) ==
    \/ UploadCall(f)
    \/ \E outcome \in {"networkError", "notOk", "ok"} : UploadFetchSettles(f, outcome)
    \/ \E outcome \in {"parsed", "unparsable"} : UploadErrorJsonSettles(f, outcome)
    \/ \E body \in OkBodies : UploadOkJsonSettles(f, body)
    \/ UploadThenData(f)
    \/ UploadCatch(f)

NextUpload == \E f \in Files : UploadToCloudinary(f)

SpecUpload == InitUpload /\ [][NextUpload]_vars

\* C19: the promise of uploadToCloudinary is never rejected, and once the
\* chain has run it is resolved: with the service's secure_url when the
\* response was OK and its body carried a secure_url, with an object URL
\* after a response that is not OK, an OK body without secure_url, a body
\* that does not parse and a network error.
UploadAlwaysResolves ==
    \A f \in Files :
        /\ upload[f].promise.state # "rejected"
        /\ upload[f].pc = "done"
            => upload[f].promise =
                 IF upload[f].response = "ok" /\ upload[f].body = "withSecureUrl"
                 THEN [state |-> "resolved", value |-> "secure_url"]
                 ELSE [state |-> "resolved", value |-> "blob"]

\* C19 witness: one upload ended on a network error and the other on an OK
\* response whose body was the JSON value null; both resolved with an
\* object URL made by the .catch.
UploadAlwaysResolvesWitness ==
    /\ upload["f1"].pc = "done" /\ upload["f1"].response = "networkError"
    /\ upload["f1"].promise = [state |-> "resolved", value |-> "blob"]
    /\ upload["f2"].pc = "done" /\ upload["f2"].response = "ok"
    /\ upload["f2"].body = "null" /\ upload["f2"].objectUrls = 1
    /\ upload["f2"].promise = [state |-> "resolved", value |-> "blob"]

\* ------------------------------------------- facade, state consistency

\* C21: a profile held by the provider is the profile of the signed-in
\* user: profile non-null implies user non-null and profile.id = user.id.
ProfileIsOfCurrentUser ==
    profile # NoProfile => (user # NULL /\ profile.id = user)

\* C25: a fetchUserData(userId) that is answered from the cache finds there
\* the profile fetched for userId.  Only signIn runs with a non-null user in
\* its closure, and it returns straight from the external call exactly when
\* the cache answered.
CacheServesItsOwnUser ==
    [][ (siPc = "auth" /\ siPc' = "done" /\ siSession' # NULL)
        => (cachedUserData.present /\ cachedUserData.profile.id = siSession')
      ]_vars

\* ------------------------------------------------- Admin, crediting totals

\* C22: over any sequence of reviews, the earnings of the worker are written
\* at most once for each submission.
SubmissionCreditedAtMostOnce ==
    \A s \in Subs : nCredits[s] <= 1

\* C23: the step in which an approval writes the worker's earnings adds the
\* payment_amount and one task to the values the row holds at that moment,
\* so that no write of another admin session in between is lost.
ApprovalAddsToCurrentRow ==
    [][ \A a \in Admins :
          (rvPc[a] = "profileUpdate" /\ rvCredited'[a])
          => LET w == SubmissionWorker(selectedSubmission[a])
             IN  dbEarnings'[w] =
                     EarningsAfterApproval(dbEarnings[w],
                                           PaymentAmount(selectedSubmission[a]))
      ]_vars

\* C27: the step in which the update of job_submissions returns an error
\* ends the handler with the error toast: the submission and the earnings
\* are as before, no read or update of profiles and no fetchData is started,
\* the dialog is still open with the same selected submission, and
\* isReviewing is false.
SubmissionErrorDegradesToToast ==
    [][ \A a \in Admins :
          SubmissionUpdateDone(a, "error")
          => /\ toast'[a] = "Error"
             /\ rvPc'[a] = "idle"
             /\ dbEarnings' = dbEarnings /\ dbSubmission' = dbSubmission
             /\ reviewDialogOpen'[a]
             /\ selectedSubmission'[a] = selectedSubmission[a]
             /\ selectedSubmission'[a] # NULL
             /\ ~isReviewing'[a]
      ]_vars

\* C27 witness: an approval of a pending submission has ended with the error
\* toast, the submission is still pending and not credited, the dialog is
\* open on it and the buttons are enabled again.
SubmissionErrorDegradesToToastWitness ==
    \E a \in Admins :
        /\ rvPc[a] = "idle" /\ toast[a] = "Error" /\ rvStatus[a] = "approved"
        /\ reviewDialogOpen[a] /\ ~isReviewing[a]
        /\ selectedSubmission[a] # NULL
        /\ dbSubmission[selectedSubmission[a]] = "pending"
        /\ nCredits[selectedSubmission[a]] = 0

\* C28: approved_earnings <= total_earnings holds for every worker's row,
\* a missing value counting as 0: every starting row satisfies it, and every
\* approval, sequential or interleaved with another admin session, keeps it.
ApprovedNeverExceedsTotal ==
    \A w \in Workers :
        OrZero(dbEarnings[w].approved_earnings) <= OrZero(dbEarnings[w].total_earnings)

\* C28 witness: two admin sessions had both read the row before either wrote
\* it, both have written, and the row that started at (50, 100, 3) holds
\* approved earnings below the total.
ApprovedNeverExceedsTotalWitness ==
    /\ \A a \in Admins : rvPc[a] = "fetchData" /\ rvCredited[a]
    /\ rvRead["a1"] = rvRead["a2"]
    /\ rvRead["a1"] = [approved_earnings |-> 50, total_earnings |-> 100,
                       tasks_completed |-> 3]
    /\ dbEarnings["w1"].approved_earnings < dbEarnings["w1"].total_earnings

\* ------------------------------------------------ facade, loading and cache

\* C30: on every path of initializeAuth, the step that ends it while the
\* provider is mounted leaves isLoading false.
InitializeAuthEndsLoading ==
    [][ (initPc # "done" /\ initPc' = "done" /\ mounted')
        => ~isLoading'
      ]_vars

\* C29: whenever the cache is non-empty, its profile and admin flag are the
\* profile and isAdmin held by the provider.
CacheMirrorsProviderState ==
    cachedUserData.present
        => (cachedUserData.profile = profile /\ cachedUserData.isAdmin = isAdmin)

\* if (!result) { console.warn('User data fetch timed out'); return; }
TimedOut == [kind |-> "timeout", profile |-> NoProfile, admin |-> FALSE]

\* C26: the step in which a fetchUserData whose timeout won the race returns
\* (in initializeAuth or in refreshProfile) leaves profile, isAdmin and the
\* cache as they are, and its caller continues: initializeAuth ends and
\* clears isLoading while mounted, refreshProfile returns.
TimeoutAbandonsFetch ==
    [][ /\ InitFetchDone(TimedOut)
           => /\ profile' = profile /\ isAdmin' = isAdmin
              /\ cachedUserData' = cachedUserData
              /\ initPc' = "done" /\ (mounted => ~isLoading')
        /\ \A r \in RefreshCalls :
             RefreshFetchDone(r, TimedOut)
             => /\ profile' = profile /\ isAdmin' = isAdmin
                /\ cachedUserData' = cachedUserData
                /\ rfPc'[r] = "done"
      ]_vars

\* C26 witness: the session restore loaded a profile and the admin role, a
\* refreshProfile then timed out and has returned: profile and isAdmin are
\* those of the restore and the cache is still the one refreshProfile
\* emptied before the fetch.
TimeoutAbandonsFetchWitness ==
    \E r \in RefreshCalls :
        /\ rfPc[r] = "done" /\ rfKind[r] = "timeout"
        /\ initPc = "done"
        /\ profile # NoProfile /\ profile.id = rfUser[r] /\ isAdmin
        /\ cachedUserData = NoCache

\* ------------------------------------------- page load of /checkout?plan=

\* window.location.href = `/checkout?plan=${tier}`: the application is
\* loaded anew, AuthProvider mounts with its defaults and Checkout renders
\* for the tier of the URL.
InitPageLoad ==
    /\ BackendAtRest
    /\ AuthPageAtRest
    /\ dbEarnings = [w \in Workers |-> NoEarnings]
    /\ plan \in Plans /\ CheckoutAtRest
    /\ AdminAtRest
    /\ ProviderMounting

pageFrame == <<dbProfile, authVars, plan, isProcessing, paymentInitiated, error, payPc,
               redirectTimers, dbTransactions, payHistory, adminVars, authPageVars,
               upload>>

\* The effect of Checkout: if (!user) navigate('/auth'), else if
\* (!currentPlan) navigate('/pricing').  isLoading is not read.
CheckoutEffect ==
    /\ location = "/checkout"
    /\ location' = IF user = NULL THEN "/auth"
                   ELSE IF plan = NULL THEN "/pricing"
                   ELSE location
    /\ UNCHANGED pageFrame

\* The effect of Auth: if (user && !authLoading) navigate('/dashboard').
AuthRedirectEffect ==
    /\ location = "/auth"
    /\ user # NULL /\ ~isLoading
    /\ location' = "/dashboard"
    /\ UNCHANGED pageFrame

\* The effects of the first commit run before getSession resolves: the
\* facade moves once the effect of Checkout has run.
NextPageLoad ==
    \/ CheckoutEffect
    \/ AuthRedirectEffect
    \/ location # "/checkout" /\ InitializeAuth
    \/ location # "/checkout" /\ AuthListener

SpecPageLoad == InitPageLoad /\ [][NextPageLoad]_vars

\* C24: Checkout never leaves for /auth while the facade is still loading
\* the persisted session.
CheckoutWaitsForSession ==
    [][ (location = "/checkout" /\ location' = "/auth") => ~isLoading ]_vars
====
